---- MODULE Spec2Model ----
(***************************************************************************)
(* Llama2 multi-token-prediction experiment notebook (zz_experiments.ipynb) *)
(*                                                                         *)
(* Two specifications:                                                     *)
(*   SpecData : the batches the data iterator yields and the shape of the  *)
(*              model output on them (cells "Load data" .. output.shape);  *)
(*   Spec     : one run of the notebook on ddp_world_size processes: DDP   *)
(*              setup, model init (scratch / resume) and the training loop.*)
(***************************************************************************)
EXTENDS Integers, Sequences, FiniteSets, TLC

(* ------------------------------ bounds --------------------------------- *)
MaxBatch == 2
MaxSeqLen == 6
MaxFuture == 4
MaxStart == 2
MaxWorld == 2
MaxAccum == 4
MaxIters == 2
MaxEvalInterval == 2
MaxLoss == 2
MaxCkptIter == 2

(* ------------------- hyper-parameters of the config cell ---------------- *)
vocab_size == 32000
dim == 64
n_layers == 5
n_heads == 8
n_kv_heads == 4
multiple_of == 32
dropout == 0
log_interval == 1
NotebookBatchSize == 1
NotebookMaxSeqLen == 30
NotebookNumFutureTokens == 4
\* ModelArgs(**model_args).__dict__ shows num_future_tokens 4 although model_args
\* carries no such key: it is the default of ModelArgs.
ModelArgs_num_future_tokens == 4
\* best_val_loss = 1e9
InitBestValLoss == 1000000000

VARIABLES
    \* data iterator / model forward (SpecData)
    batch_size, max_seq_len, num_future_tokens, X, Y, output_shape, dpc,
    \* environment and configuration of a run (Spec)
    ddp, ddp_world_size, eval_interval, eval_only, always_save_checkpoint,
    init_from, max_iters,
    \* files of out_dir
    ckpt_pt, model_bin,
    \* globals of each process, by rank
    pc, master_process, gradient_accumulation_steps, iter_num, local_iter_num,
    best_val_loss, model_args, micro_step, require_backward_grad_sync, grad,
    \* what each process has done so far (observation only)
    events, last_eval, evals, opt_steps, micro_steps, log_lines, status_lines, writes

dvars == <<batch_size, max_seq_len, num_future_tokens, X, Y, output_shape, dpc>>
cvars == <<ddp, ddp_world_size, eval_interval, eval_only, always_save_checkpoint,
           init_from, max_iters>>
fvars == <<ckpt_pt, model_bin>>
pvars == <<pc, master_process, gradient_accumulation_steps, iter_num, local_iter_num,
           best_val_loss, model_args, micro_step, require_backward_grad_sync, grad>>
hvars == <<events, last_eval, evals, opt_steps, micro_steps, log_lines, status_lines,
           writes>>
tvars == <<cvars, fvars, pvars, hvars>>
vars == <<dvars, tvars>>

(* ----------------------------- helpers --------------------------------- *)
Min(a, b) == IF a < b THEN a ELSE b

\* Python s[a:b] on a sequence, 0 <= a, 0 <= b (0-based, end exclusive, clipped).
PySlice(s, a, b) == SubSeq(s, a + 1, Min(b, Len(s)))

\* torch.Tensor.unfold(0, size, step): every window of `size` consecutive items.
Unfold(s, size, step) ==
    [w \in 1..(IF Len(s) < size THEN 0 ELSE (Len(s) - size) \div step + 1) |->
        SubSeq(s, (w - 1) * step + 1, (w - 1) * step + size)]

\* Column k (0-based) of a 2-d tensor given as a sequence of rows.
Column(rows, k) == [i \in 1..Len(rows) |-> rows[i][k + 1]]

(* ------------------ the batch recorded in the notebook ----------------- *)
RecordedX ==
    <<322, 274, 566, 29881, 280, 1213, 13, 29924, 290, 322,
      270, 328, 3939, 278, 14064, 322, 298, 688, 3192, 365,
      2354, 322, 5918, 29889, 2688, 20654, 278, 11203, 322, 278>>
RecordedY ==
    << <<274, 566, 29881, 280>>,
       <<566, 29881, 280, 1213>>,
       <<29881, 280, 1213, 13>>,
       <<280, 1213, 13, 29924>>,
       <<1213, 13, 29924, 290>>,
       <<13, 29924, 290, 322>>,
       <<29924, 290, 322, 270>>,
       <<290, 322, 270, 328>>,
       <<322, 270, 328, 3939>>,
       <<270, 328, 3939, 278>>,
       <<328, 3939, 278, 14064>>,
       <<3939, 278, 14064, 322>>,
       <<278, 14064, 322, 298>>,
       <<14064, 322, 298, 688>>,
       <<322, 298, 688, 3192>>,
       <<298, 688, 3192, 365>>,
       <<688, 3192, 365, 2354>>,
       <<3192, 365, 2354, 322>>,
       <<365, 2354, 322, 5918>>,
       <<2354, 322, 5918, 29889>>,
       <<322, 5918, 29889, 2688>>,
       <<5918, 29889, 2688, 20654>>,
       <<29889, 2688, 20654, 278>>,
       <<2688, 20654, 278, 11203>>,
       <<20654, 278, 11203, 322>>,
       <<278, 11203, 322, 278>> >>

(* ----------------------------- data iterator ---------------------------- *)
\* A pretokenized chunk of max_seq_len + 1 consecutive stream tokens.
Chunk(start) == [j \in 1..(max_seq_len + 1) |-> start + j - 1]

\* Task.iter_batches(batch_size, max_seq_len, num_future_tokens): x is the chunk
\* without its last token, y the num_future_tokens-wide windows of x[1:].
IterBatchesX(chunk) == PySlice(chunk, 0, Len(chunk) - 1)
IterBatchesY(x) == Unfold(PySlice(x, 1, Len(x)), num_future_tokens, 1)

\* window_size = 26 for the 30-token batch: the sequence length less the heads.
window_size(T) == T - ModelArgs_num_future_tokens
\* enumerate([1,2,3], 1): one MTP module per future token after the first.
mtp_modules == 1..(ModelArgs_num_future_tokens - 1)
\* X[:, k : window_size + k] on one row: the w tokens from 0-based position k on.
WindowSliceShifted(x, k, w) == PySlice(x, k - 1, w + k - 1)
WindowSlice(x, k, w) == PySlice(x, k, w + k)
\* The slice of the input MTP module k reads.
MtpInput(x, k) == WindowSlice(x, k, window_size(Len(x)))

\* model(X, Y).shape: one head for the next token and one per MTP module, each
\* over window_size positions, each a distribution over the vocabulary.
TransformerOutputShape(x) ==
    <<Len(x), Len(MtpInput(x[1], 1)), 1 + Cardinality(mtp_modules), vocab_size>>

Shape2(t) == <<Len(t), Len(t[1])>>
Shape3(t) == <<Len(t), Len(t[1]), Len(t[1][1])>>

IsNotebookConfig ==
    /\ batch_size = NotebookBatchSize
    /\ max_seq_len = NotebookMaxSeqLen
    /\ num_future_tokens = NotebookNumFutureTokens

\* A file of out_dir that has not been written.
NoFile == [present |-> FALSE]

\* SpecData runs no training process.
NoRun ==
    /\ ddp = FALSE
    /\ ddp_world_size = 0
    /\ eval_interval = 1
    /\ eval_only = FALSE
    /\ always_save_checkpoint = FALSE
    /\ init_from = "scratch"
    /\ max_iters = 0
    /\ ckpt_pt = NoFile
    /\ model_bin = NoFile
    /\ pc = <<>>
    /\ master_process = <<>>
    /\ gradient_accumulation_steps = <<>>
    /\ iter_num = <<>>
    /\ local_iter_num = <<>>
    /\ best_val_loss = <<>>
    /\ model_args = <<>>
    /\ micro_step = <<>>
    /\ require_backward_grad_sync = <<>>
    /\ grad = <<>>
    /\ events = <<>>
    /\ last_eval = <<>>
    /\ evals = <<>>
    /\ opt_steps = <<>>
    /\ micro_steps = <<>>
    /\ log_lines = <<>>
    /\ status_lines = <<>>
    /\ writes = <<>>

DataConfigs ==
    {c \in (1..MaxBatch) \X ((ModelArgs_num_future_tokens + 1)..MaxSeqLen) \X (1..MaxFuture) :
        c[3] < c[2]}
    \cup {<<NotebookBatchSize, NotebookMaxSeqLen, NotebookNumFutureTokens>>}

InitData ==
    /\ \E c \in DataConfigs :
        /\ batch_size = c[1]
        /\ max_seq_len = c[2]
        /\ num_future_tokens = c[3]
    /\ X = <<>>
    /\ Y = <<>>
    /\ output_shape = <<>>
    /\ dpc = "config"
    /\ NoRun

\* X, Y = next(train_batch_iter): each row a chunk of consecutive stream tokens.
NextBatch ==
    /\ dpc \in {"config", "forwarded"}
    /\ \E starts \in [1..batch_size -> 0..MaxStart] :
        /\ X' = [b \in 1..batch_size |-> IterBatchesX(Chunk(starts[b]))]
        /\ Y' = [b \in 1..batch_size |-> IterBatchesY(IterBatchesX(Chunk(starts[b])))]
    /\ output_shape' = <<>>
    /\ dpc' = "batch"
    /\ UNCHANGED <<batch_size, max_seq_len, num_future_tokens, tvars>>

\* The first batch of the notebook's own run, as its output cell recorded it.
FirstBatch ==
    /\ dpc = "config"
    /\ IsNotebookConfig
    /\ X' = <<RecordedX>>
    /\ Y' = <<RecordedY>>
    /\ dpc' = "batch"
    /\ UNCHANGED <<batch_size, max_seq_len, num_future_tokens, output_shape, tvars>>

\* output = model(X, Y); output.shape
ModelForward ==
    /\ dpc = "batch"
    /\ output_shape' = TransformerOutputShape(X)
    /\ dpc' = "forwarded"
    /\ UNCHANGED <<batch_size, max_seq_len, num_future_tokens, X, Y, tvars>>

NextData == NextBatch \/ FirstBatch \/ ModelForward

SpecData == InitData /\ [][NextData]_vars

(* ======================= the run: setup and training loop =============== *)
Ranks == 0..(ddp_world_size - 1)
LossVals == 1..MaxLoss

\* Names the notebook's cells bind before the training loop runs. The loop's
\* checkpoint dict reads the name config, which no cell binds (the config cell
\* stops at config_keys).
NotebookGlobals ==
    {"out_dir", "eval_interval", "log_interval", "eval_iters", "eval_only",
     "always_save_checkpoint", "init_from", "wandb_log", "wandb_project",
     "wandb_run_name", "batch_size", "max_seq_len", "vocab_source", "vocab_size",
     "dim", "n_layers", "n_heads", "n_kv_heads", "multiple_of", "dropout",
     "num_future_tokens", "gradient_accumulation_steps", "learning_rate",
     "max_iters", "weight_decay", "beta1", "beta2", "grad_clip", "decay_lr",
     "warmup_iters", "device", "dtype", "compile", "config_keys",
     "lr_decay_iters", "min_lr", "ddp", "master_process", "seed_offset",
     "ddp_world_size", "tokens_per_iter", "device_type", "ptdtype", "ctx",
     "iter_batches", "iter_num", "best_val_loss", "model_args", "gptconf",
     "model", "scaler", "optimizer", "checkpoint", "unoptimized_model",
     "estimate_loss", "get_lr", "train_batch_iter", "X", "Y", "t0",
     "local_iter_num", "raw_model", "running_mfu"}

\* model_args = dict(dim=dim, ..., dropout=dropout)
ConfigModelArgs ==
    [dim |-> dim, n_layers |-> n_layers, n_heads |-> n_heads,
     n_kv_heads |-> n_kv_heads, vocab_size |-> vocab_size,
     multiple_of |-> multiple_of, max_seq_len |-> max_seq_len, dropout |-> dropout]

\* The keys the resume branch copies from the checkpoint's model_args.
ForcedKeysAll == DOMAIN ConfigModelArgs
ForcedKeys ==
    {"dim", "n_layers", "n_heads", "n_kv_heads", "vocab_size", "multiple_of",
     "max_seq_len"}

\* master_process = ddp_rank == 0
MasterProcessAnyRank(rank) == rank >= 0
MasterProcess(rank) == rank = 0

\* iter_num % eval_interval == 0 and master_process
EvalDue(r) == iter_num[r] % eval_interval = 0 /\ master_process[r]

\* losses["val"] < best_val_loss or always_save_checkpoint
ShouldSave(val, best) == val < best \/ always_save_checkpoint

\* model.require_backward_grad_sync = micro_step == gradient_accumulation_steps - 1
GradSyncFirst(ms, gas) == ms = 0
GradSync(ms, gas) == ms = gas - 1

\* One backward pass adds the gradient of loss / gradient_accumulation_steps of
\* the micro-batch (iteration it, micro-step ms) to the .grad buffers.
Contribution(it, ms, gas) == [iter |-> it, micro_step |-> ms, divisor |-> gas]

\* optimizer.zero_grad(set_to_none=True)
ZeroGradKept(g) == g
ZeroGradResult(g) == {}

\* A checkpoint left in out_dir by an earlier run, configured differently in
\* every model argument. Checkpoints are only ever written at iter_num > 0.
EarlierCheckpoints ==
    {[present |-> TRUE,
      model_args |-> [k \in DOMAIN ConfigModelArgs |-> ConfigModelArgs[k] + 1],
      iter_num |-> i, best_val_loss |-> b] : i \in 1..MaxCkptIter, b \in LossVals}

Init ==
    /\ batch_size = NotebookBatchSize
    /\ max_seq_len = NotebookMaxSeqLen
    /\ num_future_tokens = NotebookNumFutureTokens
    /\ X = <<>>
    /\ Y = <<>>
    /\ output_shape = <<>>
    /\ dpc = "config"
    /\ ddp \in BOOLEAN
    /\ ddp_world_size \in 1..MaxWorld
    /\ ~ddp => ddp_world_size = 1
    /\ eval_interval \in 1..MaxEvalInterval
    /\ eval_only \in BOOLEAN
    /\ always_save_checkpoint \in BOOLEAN
    /\ max_iters \in 0..MaxIters
    /\ init_from \in {"scratch", "resume"}
    /\ IF init_from = "resume" THEN ckpt_pt \in EarlierCheckpoints ELSE ckpt_pt = NoFile
    /\ model_bin = NoFile
    /\ pc = [r \in Ranks |-> "setup"]
    /\ master_process = [r \in Ranks |-> FALSE]
    /\ \E g \in 1..MaxAccum : gradient_accumulation_steps = [r \in Ranks |-> g]
    /\ iter_num = [r \in Ranks |-> 0]
    /\ local_iter_num = [r \in Ranks |-> 0]
    /\ best_val_loss = [r \in Ranks |-> InitBestValLoss]
    /\ model_args = [r \in Ranks |-> ConfigModelArgs]
    /\ micro_step = [r \in Ranks |-> 0]
    /\ require_backward_grad_sync = [r \in Ranks |-> TRUE]
    /\ grad = [r \in Ranks |-> {}]
    /\ events = [r \in Ranks |-> <<>>]
    /\ last_eval = [r \in Ranks |-> <<>>]
    /\ evals = [r \in Ranks |-> {}]
    /\ opt_steps = [r \in Ranks |-> 0]
    /\ micro_steps = [r \in Ranks |-> 0]
    /\ log_lines = [r \in Ranks |-> 0]
    /\ status_lines = [r \in Ranks |-> 0]
    /\ writes = [r \in Ranks |-> {}]

\* "Further setting": rank and master_process, the per-process share of the
\* gradient accumulation steps, the tokens-per-iteration lines; then "Load data":
\* iter_num = 0, best_val_loss = 1e9.
DDPSetup(r) ==
    /\ pc[r] = "setup"
    /\ IF ddp /\ gradient_accumulation_steps[r] % ddp_world_size # 0
       THEN \* assert gradient_accumulation_steps % ddp_world_size == 0
            /\ pc' = [pc EXCEPT ![r] = "assert_failed"]
            /\ UNCHANGED <<master_process, gradient_accumulation_steps, log_lines>>
       ELSE /\ master_process' =
                [master_process EXCEPT ![r] = IF ddp THEN MasterProcess(r) ELSE TRUE]
            /\ gradient_accumulation_steps' =
                [gradient_accumulation_steps EXCEPT
                    ![r] = IF ddp THEN @ \div ddp_world_size ELSE @]
            /\ log_lines' =
                [log_lines EXCEPT ![r] = IF master_process'[r] THEN @ + 2 ELSE @]
            /\ pc' = [pc EXCEPT ![r] = "model_init"]
    /\ iter_num' = [iter_num EXCEPT ![r] = 0]
    /\ best_val_loss' = [best_val_loss EXCEPT ![r] = InitBestValLoss]
    /\ UNCHANGED <<dvars, cvars, fvars, local_iter_num, model_args, micro_step,
                   require_backward_grad_sync, grad, events, last_eval, evals,
                   opt_steps, micro_steps, status_lines, writes>>

\* "Load model": a new model from the configured arguments, or the checkpoint's.
ModelInit(r) ==
    /\ pc[r] = "model_init"
    /\ IF init_from = "resume"
       THEN /\ model_args' =
                [model_args EXCEPT ![r] =
                    [k \in DOMAIN ConfigModelArgs |->
                        IF k \in ForcedKeys THEN ckpt_pt.model_args[k]
                        ELSE ConfigModelArgs[k]]]
            /\ iter_num' = [iter_num EXCEPT ![r] = ckpt_pt.iter_num]
            /\ best_val_loss' = [best_val_loss EXCEPT ![r] = ckpt_pt.best_val_loss]
       ELSE /\ model_args' = [model_args EXCEPT ![r] = ConfigModelArgs]
            /\ UNCHANGED <<iter_num, best_val_loss>>
    \* "Initializing a new model" / "Resuming training", "Number of model parameters"
    /\ status_lines' = [status_lines EXCEPT ![r] = @ + 2]
    /\ pc' = [pc EXCEPT ![r] = "wrap"]
    /\ UNCHANGED <<dvars, cvars, fvars, master_process, gradient_accumulation_steps,
                   local_iter_num, micro_step, require_backward_grad_sync, grad,
                   events, last_eval, evals, opt_steps, micro_steps, log_lines, writes>>

\* "Compile model": optimizer, torch.compile, the DDP wrapper (a collective: it
\* returns once every rank constructs it), the first batch; local_iter_num = 0.
EnterLoop(r) ==
    /\ pc[r] = "wrap"
    /\ ddp => \A q \in Ranks : pc[q] \notin {"setup", "model_init", "assert_failed"}
    /\ require_backward_grad_sync' = [require_backward_grad_sync EXCEPT ![r] = TRUE]
    /\ local_iter_num' = [local_iter_num EXCEPT ![r] = 0]
    \* "num decayed parameter tensors", "using fused AdamW", "compiling the model"
    /\ status_lines' = [status_lines EXCEPT ![r] = @ + 4]
    /\ pc' = [pc EXCEPT ![r] = "loop"]
    /\ UNCHANGED <<dvars, cvars, fvars, master_process, gradient_accumulation_steps,
                   iter_num, best_val_loss, model_args, micro_step, grad, events,
                   last_eval, evals, opt_steps, micro_steps, log_lines, writes>>

\* Top of the while loop: the learning rate, then the evaluation block up to the
\* decision to write a checkpoint.
Evaluate(r) ==
    /\ pc[r] = "loop"
    /\ IF EvalDue(r)
       THEN \E val \in LossVals :
            /\ evals' = [evals EXCEPT ![r] = @ \cup {iter_num[r]}]
            /\ events' = [events EXCEPT ![r] = Append(@, "eval")]
            /\ last_eval' =
                [last_eval EXCEPT ![r] = [val |-> val, best_before |-> best_val_loss[r]]]
            /\ log_lines' = [log_lines EXCEPT ![r] = @ + 1]
            /\ IF ShouldSave(val, best_val_loss[r])
               THEN /\ best_val_loss' = [best_val_loss EXCEPT ![r] = val]
                    /\ pc' = [pc EXCEPT
                                ![r] = IF iter_num[r] > 0 THEN "checkpoint" ELSE "eval_only"]
               ELSE /\ pc' = [pc EXCEPT ![r] = "eval_only"]
                    /\ UNCHANGED best_val_loss
       ELSE /\ pc' = [pc EXCEPT ![r] = "eval_only"]
            /\ UNCHANGED <<evals, events, last_eval, log_lines, best_val_loss>>
    /\ UNCHANGED <<dvars, cvars, fvars, master_process, gradient_accumulation_steps,
                   iter_num, local_iter_num, model_args, micro_step,
                   require_backward_grad_sync, grad, opt_steps, micro_steps,
                   status_lines, writes>>

\* checkpoint = {..., "config": config}; torch.save(...); model_export(...).
\* Building the dict raises NameError when config is unbound, before anything
\* is printed or written.
SaveCheckpoint(r) ==
    /\ pc[r] = "checkpoint"
    /\ IF "config" \in NotebookGlobals
       THEN /\ ckpt_pt' = [present |-> TRUE, model_args |-> model_args[r],
                           iter_num |-> iter_num[r],
                           best_val_loss |-> best_val_loss[r]]
            /\ model_bin' = [present |-> TRUE, iter_num |-> iter_num[r]]
            /\ log_lines' = [log_lines EXCEPT ![r] = @ + 1]
            /\ writes' = [writes EXCEPT ![r] = @ \cup {"ckpt.pt", "model.bin"}]
            /\ events' = [events EXCEPT ![r] = @ \o <<"ckpt", "export">>]
            /\ pc' = [pc EXCEPT ![r] = "eval_only"]
       ELSE /\ pc' = [pc EXCEPT ![r] = "crashed"]
            /\ UNCHANGED <<ckpt_pt, model_bin, log_lines, writes, events>>
    /\ UNCHANGED <<dvars, cvars, master_process, gradient_accumulation_steps, iter_num,
                   local_iter_num, best_val_loss, model_args, micro_step,
                   require_backward_grad_sync, grad, last_eval, evals, opt_steps,
                   micro_steps, status_lines>>

\* if iter_num == 0 and eval_only: break; otherwise enter the micro-step loop.
BreakOrTrain(r) ==
    /\ pc[r] = "eval_only"
    /\ IF iter_num[r] = 0 /\ eval_only
       THEN /\ pc' = [pc EXCEPT ![r] = "done"]
            /\ UNCHANGED micro_step
       ELSE /\ micro_step' = [micro_step EXCEPT ![r] = 0]
            /\ pc' = [pc EXCEPT
                        ![r] = IF gradient_accumulation_steps[r] > 0 THEN "forward" ELSE "step"]
    /\ UNCHANGED <<dvars, cvars, fvars, master_process, gradient_accumulation_steps,
                   iter_num, local_iter_num, best_val_loss, model_args,
                   require_backward_grad_sync, grad, hvars>>

\* One micro-step up to the backward pass: the sync toggle (DDP only), the
\* forward pass, loss / gradient_accumulation_steps, the prefetch.
Forward(r) ==
    /\ pc[r] = "forward"
    /\ require_backward_grad_sync' =
        [require_backward_grad_sync EXCEPT
            ![r] = IF ddp THEN GradSync(micro_step[r], gradient_accumulation_steps[r])
                   ELSE @]
    /\ events' = [events EXCEPT ![r] = Append(@, "forward")]
    /\ pc' = [pc EXCEPT ![r] = "backward"]
    /\ UNCHANGED <<dvars, cvars, fvars, master_process, gradient_accumulation_steps,
                   iter_num, local_iter_num, best_val_loss, model_args, micro_step,
                   grad, last_eval, evals, opt_steps, micro_steps, log_lines,
                   status_lines, writes>>

AfterBackward(r) ==
    IF micro_step[r] + 1 < gradient_accumulation_steps[r] THEN "forward" ELSE "step"

\* scaler.scale(loss).backward() without gradient synchronisation.
BackwardLocal(r) ==
    /\ pc[r] = "backward"
    /\ ~(ddp /\ require_backward_grad_sync[r])
    /\ grad' = [grad EXCEPT ![r] = @ \cup
                {Contribution(iter_num[r], micro_step[r], gradient_accumulation_steps[r])}]
    /\ events' = [events EXCEPT ![r] = Append(@, "backward")]
    /\ micro_steps' = [micro_steps EXCEPT ![r] = @ + 1]
    /\ micro_step' = [micro_step EXCEPT ![r] = @ + 1]
    /\ pc' = [pc EXCEPT ![r] = AfterBackward(r)]
    /\ UNCHANGED <<dvars, cvars, fvars, master_process, gradient_accumulation_steps,
                   iter_num, local_iter_num, best_val_loss, model_args,
                   require_backward_grad_sync, last_eval, evals, opt_steps, log_lines,
                   status_lines, writes>>

\* scaler.scale(loss).backward() with require_backward_grad_sync set: DDP
\* all-reduces the gradients, which completes when every rank takes part.
BackwardAllReduce ==
    /\ ddp
    /\ \A r \in Ranks : pc[r] = "backward" /\ require_backward_grad_sync[r]
    /\ grad' = [r \in Ranks |-> grad[r] \cup
                {Contribution(iter_num[r], micro_step[r], gradient_accumulation_steps[r])}]
    /\ events' = [r \in Ranks |-> Append(events[r], "backward_sync")]
    /\ micro_steps' = [r \in Ranks |-> micro_steps[r] + 1]
    /\ micro_step' = [r \in Ranks |-> micro_step[r] + 1]
    /\ pc' = [r \in Ranks |-> AfterBackward(r)]
    /\ UNCHANGED <<dvars, cvars, fvars, master_process, gradient_accumulation_steps,
                   iter_num, local_iter_num, best_val_loss, model_args,
                   require_backward_grad_sync, last_eval, evals, opt_steps, log_lines,
                   status_lines, writes>>

\* Gradient clipping, scaler.step(optimizer), scaler.update().
OptimizerStep(r) ==
    /\ pc[r] = "step"
    /\ opt_steps' = [opt_steps EXCEPT ![r] = @ + 1]
    /\ events' = [events EXCEPT ![r] = Append(@, "step")]
    /\ pc' = [pc EXCEPT ![r] = "zero_grad"]
    /\ UNCHANGED <<dvars, cvars, fvars, master_process, gradient_accumulation_steps,
                   iter_num, local_iter_num, best_val_loss, model_args, micro_step,
                   require_backward_grad_sync, grad, last_eval, evals, micro_steps,
                   log_lines, status_lines, writes>>

\* optimizer.zero_grad(set_to_none=True)
ZeroGrad(r) ==
    /\ pc[r] = "zero_grad"
    /\ grad' = [grad EXCEPT ![r] = ZeroGradResult(@)]
    /\ events' = [events EXCEPT ![r] = Append(@, "zero_grad")]
    /\ pc' = [pc EXCEPT ![r] = "log"]
    /\ UNCHANGED <<dvars, cvars, fvars, master_process, gradient_accumulation_steps,
                   iter_num, local_iter_num, best_val_loss, model_args, micro_step,
                   require_backward_grad_sync, last_eval, evals, opt_steps,
                   micro_steps, log_lines, status_lines, writes>>

\* Timing and logging, iter_num += 1, local_iter_num += 1, the termination test.
LogAndAdvance(r) ==
    /\ pc[r] = "log"
    /\ log_lines' =
        [log_lines EXCEPT
            ![r] = IF iter_num[r] % log_interval = 0 /\ master_process[r] THEN @ + 1 ELSE @]
    /\ iter_num' = [iter_num EXCEPT ![r] = @ + 1]
    /\ local_iter_num' = [local_iter_num EXCEPT ![r] = @ + 1]
    /\ IF iter_num[r] + 1 > max_iters
       THEN /\ pc' = [pc EXCEPT ![r] = "done"]
            /\ UNCHANGED events
       ELSE /\ pc' = [pc EXCEPT ![r] = "loop"]
            /\ events' = [events EXCEPT ![r] = <<>>]
    /\ UNCHANGED <<dvars, cvars, fvars, master_process, gradient_accumulation_steps,
                   best_val_loss, model_args, micro_step, require_backward_grad_sync,
                   grad, last_eval, evals, opt_steps, micro_steps, status_lines, writes>>

Next ==
    \/ \E r \in Ranks : DDPSetup(r)
    \/ \E r \in Ranks : ModelInit(r)
    \/ \E r \in Ranks : EnterLoop(r)
    \/ \E r \in Ranks : Evaluate(r)
    \/ \E r \in Ranks : SaveCheckpoint(r)
    \/ \E r \in Ranks : BreakOrTrain(r)
    \/ \E r \in Ranks : Forward(r)
    \/ \E r \in Ranks : BackwardLocal(r)
    \/ \E r \in Ranks : OptimizerStep(r)
    \/ \E r \in Ranks : ZeroGrad(r)
    \/ \E r \in Ranks : LogAndAdvance(r)
    \/ BackwardAllReduce

Spec == Init /\ [][Next]_vars

(* ------------------------------ claims --------------------------------- *)

C2_Shapes ==
    dpc = "forwarded" =>
        /\ Shape2(X) = <<batch_size, max_seq_len>>
        /\ Shape3(Y) = <<batch_size, max_seq_len - num_future_tokens, num_future_tokens>>
        /\ output_shape = <<batch_size, max_seq_len - num_future_tokens,
                            num_future_tokens, vocab_size>>

\* (C2 restricted to the one value of num_future_tokens the model is built for)
C2_ShapesDefaultK ==
    (dpc = "forwarded" /\ num_future_tokens = ModelArgs_num_future_tokens) =>
        /\ Shape2(X) = <<batch_size, max_seq_len>>
        /\ Shape3(Y) = <<batch_size, max_seq_len - num_future_tokens, num_future_tokens>>
        /\ output_shape = <<batch_size, max_seq_len - num_future_tokens,
                            num_future_tokens, vocab_size>>

(* helpers of the statements about a run *)
Range(q) == {q[i] : i \in 1..Len(q)}
Pos(q, e) == CHOOSE i \in 1..Len(q) : q[i] = e /\ \A j \in 1..(i - 1) : q[j] # e
IsPrefix(a, b) == Len(a) <= Len(b) /\ a = SubSeq(b, 1, Len(a))
IsTrainEvent(e) == e \in {"forward", "backward", "backward_sync", "step", "zero_grad"}
TrainEvents(ev) == SelectSeq(ev, IsTrainEvent)
Unsynced(ev) == [i \in 1..Len(ev) |-> IF ev[i] = "backward_sync" THEN "backward" ELSE ev[i]]
IsSync(e) == e = "backward_sync"
\* What one full iteration does after the evaluation block: gas times forward
\* then backward (the last backward synchronised when sync), step, zero_grad.
IterationEvents(gas, sync) ==
    [i \in 1..(2 * gas + 2) |->
        IF i = 2 * gas + 1 THEN "step"
        ELSE IF i = 2 * gas + 2 THEN "zero_grad"
        ELSE IF i % 2 = 1 THEN "forward"
        ELSE IF sync /\ i = 2 * gas THEN "backward_sync"
        ELSE "backward"]
InLoop(r) ==
    pc[r] \in {"loop", "checkpoint", "eval_only", "forward", "backward", "step",
               "zero_grad", "log"}
\* Past the evaluation block of the current iteration (a failed checkpoint
\* write included), and not yet advanced to the next iteration.
PastEvalBlock(r) ==
    pc[r] \in {"eval_only", "forward", "backward", "step", "zero_grad", "log", "crashed"}

C4_EvalCheckpointExport ==
    \A r \in Ranks :
        (master_process[r] /\ PastEvalBlock(r)) =>
            /\ ("eval" \in Range(events[r])) <=> (iter_num[r] % eval_interval = 0)
            /\ ("eval" \in Range(events[r]) /\ "step" \in Range(events[r])) =>
                Pos(events[r], "eval") < Pos(events[r], "step")
            /\ ( /\ "eval" \in Range(events[r])
                 /\ iter_num[r] > 0
                 /\ last_eval[r].val < last_eval[r].best_before ) =>
                /\ IsPrefix(<<"eval", "ckpt", "export">>, events[r])
                /\ ckpt_pt.present /\ ckpt_pt.iter_num = iter_num[r]
                /\ model_bin.present /\ model_bin.iter_num = iter_num[r]

\* C5: with always_save_checkpoint a checkpoint is saved after each evaluation
\* of the training loop, whatever the validation loss and the iteration number.
C5_AlwaysSave ==
    always_save_checkpoint =>
        \A r \in Ranks :
            (PastEvalBlock(r) /\ "eval" \in Range(events[r])) =>
                /\ "ckpt" \in Range(events[r])
                /\ ckpt_pt.present /\ ckpt_pt.iter_num = iter_num[r]

\* C6: with eval_only the run exits right after its first evaluation, for
\* every starting iter_num: no forward/backward micro-step and no optimizer
\* step is ever performed.
C6_EvalOnly ==
    eval_only =>
        \A r \in Ranks :
            /\ micro_steps[r] = 0
            /\ opt_steps[r] = 0
            /\ pc[r] \notin {"forward", "backward", "step", "zero_grad", "log"}

\* C7: a run from scratch with eval_only False has, when it terminates,
\* performed exactly max_iters optimizer steps.
C7_MaxIters ==
    (init_from = "scratch" /\ ~eval_only) =>
        \A r \in Ranks : pc[r] = "done" => opt_steps[r] = max_iters

\* C8: in a DDP run gradient synchronisation is enabled during the backward
\* pass of the last micro-step of an iteration and disabled during every
\* earlier one: exactly one synchronised backward per optimizer step, before it.
C8_GradSync ==
    ddp =>
        \A r \in Ranks :
            LET gas == gradient_accumulation_steps[r] IN
            /\ pc[r] = "backward" =>
                (require_backward_grad_sync[r] <=> micro_step[r] = gas - 1)
            /\ InLoop(r) => IsPrefix(TrainEvents(events[r]), IterationEvents(gas, TRUE))
            /\ pc[r] \in {"step", "zero_grad", "log"} =>
                /\ Len(SelectSeq(events[r], IsSync)) = 1
                /\ TrainEvents(events[r])[2 * gas] = "backward_sync"

C8_Witness ==
    /\ ddp
    /\ ddp_world_size = 2
    /\ \A r \in Ranks :
        /\ pc[r] = "step"
        /\ gradient_accumulation_steps[r] = 2
        /\ local_iter_num[r] >= 1
        /\ events[r][Len(events[r])] = "backward_sync"

C10_Resume ==
    init_from = "resume" =>
        \A r \in Ranks :
            /\ (pc[r] = "wrap" \/ (pc[r] = "loop" /\ local_iter_num[r] = 0)) =>
                /\ iter_num[r] = ckpt_pt.iter_num
                /\ best_val_loss[r] = ckpt_pt.best_val_loss
            /\ pc[r] \notin {"setup", "model_init", "assert_failed"} =>
                /\ DOMAIN model_args[r] =
                    {"dim", "n_layers", "n_heads", "n_kv_heads", "vocab_size",
                     "multiple_of", "max_seq_len", "dropout"}
                /\ model_args[r].dim = ckpt_pt.model_args.dim
                /\ model_args[r].n_layers = ckpt_pt.model_args.n_layers
                /\ model_args[r].n_heads = ckpt_pt.model_args.n_heads
                /\ model_args[r].n_kv_heads = ckpt_pt.model_args.n_kv_heads
                /\ model_args[r].vocab_size = ckpt_pt.model_args.vocab_size
                /\ model_args[r].multiple_of = ckpt_pt.model_args.multiple_of
                /\ model_args[r].max_seq_len = ckpt_pt.model_args.max_seq_len
                /\ model_args[r].dropout = dropout

C10_Witness ==
    /\ init_from = "resume"
    /\ \E r \in Ranks :
        /\ pc[r] = "loop"
        /\ local_iter_num[r] = 0
        /\ iter_num[r] = 2
        /\ model_args[r].dim # dim
        /\ ckpt_pt.model_args.dropout # dropout
====
